---- MODULE Spec2Model ----
(***************************************************************************)
(* Model of src/app.py: the document registry (documents), the upload      *)
(* directory (disk), the handlers upload_file, chat, delete_document and   *)
(* clear_documents, and the generator stream_response that relays the      *)
(* upstream model API's events as server-sent events.                      *)
(*                                                                         *)
(* Text is modelled as a sequence of tokens, so that concatenation, the    *)
(* empty string and truthiness are what they are in Python.  Requests are  *)
(* served one at a time: a handler runs to completion, and a chat          *)
(* response's generator is drained before the next request starts.         *)
(***************************************************************************)
EXTENDS Integers, Sequences, FiniteSets, TLC

\* ------------------------------------------------------------------ bounds
\* Number of identifiers uuid.uuid4() can hand out in one run.
MaxIds == 2
\* Longest file_ids list a chat request carries.
MaxFileIds == 2
\* Most text fragments the upstream stream delivers for one chat request.
MaxChunks == 2

\* ------------------------------------------------------- program constants
\* "-" * 50, the separator rule under a document header.
RuleWidth == 50

\* ------------------------------------------------------------ input spaces
\* str(uuid.uuid4()): fixed-length opaque strings, one token each.
UuidPool == {<<ToString(i)>> : i \in 1..MaxIds}

\* Client-supplied filenames: none, a plain name, a name with a separator.
Filenames == {<<>>, <<"a">>, <<"d", "/", "a">>}

\* Uploaded bytes: text, a CRLF line end, and bytes that are not UTF-8.
Payloads == {<<"x">>, <<"\r", "\n">>, <<"0xFF">>}

\* Values of the JSON field 'message'.
UserMessages == {<<>>, <<"q">>}

\* Text fragments carried by content_block_delta events.
DeltaTexts == {<<"h">>, <<"i">>}

RECURSIVE SeqsUpTo(_, _)
SeqsUpTo(S, n) ==
    IF n = 0 THEN {<<>>}
    ELSE LET shorter == SeqsUpTo(S, n - 1)
         IN  shorter \cup {Append(s, x) : s \in {t \in shorter : Len(t) = n - 1}, x \in S}

\* Values of the JSON field 'file_ids'; a request without the field reads
\* as one with the empty list, data.get('file_ids', []).
FileIdLists == SeqsUpTo(UuidPool, MaxFileIds)

Range(s) == {s[i] : i \in 1..Len(s)}

\* ------------------------------------------------------------------- state
VARIABLES
    documents,      \* the registry: file_id -> [filename, path, content]
    disk,           \* paths of the files that exist under UPLOAD_FOLDER
    issued,         \* every value uuid.uuid4() has returned so far
    deleted,        \* [file_id, path] of every delete answered with success
    req,            \* the request being served (the last one, once served)
    resp,           \* its response
    context,        \* chat(): the local 'context'
    messages,       \* chat() / stream_response(): the list 'messages'
    upstream_calls, \* conversations handed to client.messages.stream
    events,         \* server-sent events the generator has yielded
    response_text,  \* stream_response(): the local 'response_text'
    pc,             \* position of the response generator
    upstream,       \* how the upstream stream ended: "", "end" or "raise"
    threads         \* handlers running at once: each one's position and locals

vars == <<documents, disk, issued, deleted, req, resp, context, messages,
          upstream_calls, events, response_text, pc, upstream, threads>>

registry == <<documents, disk, issued, deleted>>

\* The empty mapping (an empty dict).
EmptyMap == [k \in {} |-> <<>>]

\* A request record; every handler fills the fields it reads.
NoReq == [op |-> "", has_file |-> FALSE, filename |-> <<>>, payload |-> <<"x">>,
          file_id |-> <<>>, has_message |-> FALSE, message |-> <<>>,
          file_ids |-> <<>>, os_error |-> {}]

\* A response record: HTTP status and the body fields the handlers set.
NoResp == [status |-> 0, file_id |-> <<>>, filename |-> <<>>, count |-> 0,
           failed_deletions |-> 0, streaming |-> FALSE]

\* Python truthiness of a string.
Truthy(s) == s # <<>>

\* dict.get(key, default) on the request's JSON body.
DictGet(present, value, default) == IF present THEN value ELSE default

\* -------------------------------------------------------------- filesystem
\* UPLOAD_FOLDER = Path('./uploads'), created at start-up.
UPLOAD_FOLDER == <<"uploads">>

\* Index of the last "/" of a path, 0 when it has none.
LastSlash(path) ==
    LET at == {i \in 1..Len(path) : path[i] = "/"}
    IN  IF at = {} THEN 0 ELSE CHOOSE i \in at : \A j \in at : j <= i

\* Path.name: the last component of a path.
PathName(path) == SubSeq(path, LastSlash(path) + 1, Len(path))

\* The directory a path lies in.
ParentDir(path) == SubSeq(path, 1, LastSlash(path) - 1)

\* Variant: the stored name leaves out the identifier.
StoragePathNoId(file_id, filename) == UPLOAD_FOLDER \o <<"/">> \o filename

\* UPLOAD_FOLDER / f"{file_id}_{file.filename}", as str(file_path).
StoragePath(file_id, filename) ==
    UPLOAD_FOLDER \o <<"/">> \o file_id \o <<"_">> \o filename

\* file.save(file_path) opens the path for writing: it raises unless the
\* path's directory exists, and UPLOAD_FOLDER is the only directory there is.
SaveRaises(path) == ParentDir(path) # UPLOAD_FOLDER

\* os.remove(path) raises when the file is missing or the system refuses.
RemoveRaises(path, files, os_error) == path \notin files \/ path \in os_error

\* Text-mode reading translates "\r\n" and "\r" to "\n".
RECURSIVE UniversalNewlines(_)
UniversalNewlines(bytes) ==
    IF bytes = <<>> THEN <<>>
    ELSE IF Head(bytes) = "\r"
         THEN IF Len(bytes) >= 2 /\ bytes[2] = "\n"
              THEN <<"\n">> \o UniversalNewlines(SubSeq(bytes, 3, Len(bytes)))
              ELSE <<"\n">> \o UniversalNewlines(Tail(bytes))
         ELSE <<Head(bytes)>> \o UniversalNewlines(Tail(bytes))

\* read_file_content(file_path), given the bytes the file holds.
read_file_content(file_path, bytes) ==
    IF "0xFF" \in Range(bytes)
    THEN <<"[Binary file: ">> \o PathName(file_path)
             \o <<". Content not readable as text.]">>
    ELSE UniversalNewlines(bytes)

\* Variant: identifiers repeat.
uuid4Repeats == UuidPool

\* uuid.uuid4(): a value never returned before.
uuid4 == UuidPool \ issued

\* documents[key] = value
DictSet(d, key, value) ==
    [k \in DOMAIN d \cup {key} |-> IF k = key THEN value ELSE d[k]]

\* Variant: the entry is left in the registry.
DictDelKeeps(d, key) == d

\* del documents[key]
DictDel(d, key) == [k \in DOMAIN d \ {key} |-> d[k]]

\* Variant: the registry is not emptied.
DictClearKeeps(d) == d

\* documents.clear()
DictClear(d) == EmptyMap

\* ----------------------------------------------------------- request scope
\* No request is being served: no handler runs, no generator is suspended.
Idle == pc = "none"

\* Variant: the list of the previous chat request is kept and used again.
NewMessagesKept == messages

\* messages = []: the name is local to chat() and bound to a new, empty list
\* by every request; no list outlives the request that made it.
NewMessages == <<>>

\* The locals and the response stream of the previous request are gone.
NoStream ==
    /\ context' = <<>>
    /\ messages' = NewMessages
    /\ upstream_calls' = <<>>
    /\ events' = <<>>
    /\ response_text' = <<>>
    /\ pc' = "none"
    /\ upstream' = ""

\* ------------------------------------------------------------ POST /upload
UploadRequest(has_file, filename, payload) ==
    [NoReq EXCEPT !.op = "upload", !.has_file = has_file,
                  !.filename = filename, !.payload = payload]

\* Variant: only the missing field is rejected.
UploadRejectedFieldOnly(has_file, filename) == ~has_file

\* 'file' not in request.files, or file.filename == ''
UploadRejected(has_file, filename) == ~has_file \/ filename = <<>>

upload_file(has_file, filename, payload) ==
    /\ Idle
    /\ req' = UploadRequest(has_file, filename, payload)
    /\ NoStream
    /\ IF UploadRejected(has_file, filename)
       THEN /\ resp' = [NoResp EXCEPT !.status = 400]
            /\ UNCHANGED registry
       ELSE \E file_id \in uuid4 :
            LET file_path == StoragePath(file_id, filename)
                content == read_file_content(file_path, payload)
            IN  /\ issued' = issued \cup {file_id}
                /\ UNCHANGED deleted
                /\ IF SaveRaises(file_path)
                   THEN /\ resp' = [NoResp EXCEPT !.status = 500]
                        /\ UNCHANGED <<documents, disk>>
                   ELSE /\ disk' = disk \cup {file_path}
                        /\ documents' = DictSet(documents, file_id,
                               [filename |-> filename, path |-> file_path,
                                content |-> content])
                        /\ resp' = [NoResp EXCEPT !.status = 200,
                                       !.file_id = file_id,
                                       !.filename = filename]

UploadFile ==
    \E has_file \in BOOLEAN, filename \in Filenames, payload \in Payloads :
        /\ ~has_file => filename = <<>> /\ payload = <<"x">>
        /\ upload_file(has_file, filename, payload)
        /\ UNCHANGED threads

\* ------------------------------------------------ DELETE /delete/<file_id>
\* Variant: the entry is dropped before the file is removed, so a failed
\* removal leaves the registry without it.
OnRemoveErrorDropsEntry(file_id) ==
    /\ resp' = [NoResp EXCEPT !.status = 500]
    /\ documents' = DictDel(documents, file_id)
    /\ UNCHANGED <<disk, deleted>>

\* except Exception: 500, with nothing removed.
OnRemoveError(file_id) ==
    /\ resp' = [NoResp EXCEPT !.status = 500]
    /\ UNCHANGED <<documents, disk, deleted>>

delete_document(file_id, os_error) ==
    /\ Idle
    /\ req' = [NoReq EXCEPT !.op = "delete", !.file_id = file_id,
                            !.os_error = os_error]
    /\ NoStream
    /\ UNCHANGED issued
    /\ IF file_id \notin DOMAIN documents
       THEN /\ resp' = [NoResp EXCEPT !.status = 404]
            /\ UNCHANGED <<documents, disk, deleted>>
       ELSE LET file_path == documents[file_id].path
            IN  IF RemoveRaises(file_path, disk, os_error)
                THEN OnRemoveError(file_id)
                ELSE /\ disk' = disk \ {file_path}
                     /\ documents' = DictDel(documents, file_id)
                     /\ deleted' = deleted \cup
                            {[file_id |-> file_id, path |-> file_path]}
                     /\ resp' = [NoResp EXCEPT !.status = 200,
                                    !.file_id = file_id]

\* The paths os.remove may be refused on: those of registered documents.
StoredPaths == {documents[k].path : k \in DOMAIN documents}

DeleteDocument ==
    \E file_id \in UuidPool :
        \E os_error \in
              (IF file_id \in DOMAIN documents
               THEN {{}, {documents[file_id].path}} ELSE {{}}) :
            /\ delete_document(file_id, os_error)
            /\ UNCHANGED threads

\* ------------------------------------------------------------- POST /clear
\* Variant: the first removal that raises ends the loop.
RECURSIVE ClearLoopAborts(_, _, _, _)
ClearLoopAborts(left, files, failed_deletions, os_error) ==
    IF left = {} THEN [disk |-> files, failed_deletions |-> failed_deletions]
    ELSE LET k == CHOOSE x \in left : TRUE
             path == documents[k].path
         IN  IF RemoveRaises(path, files, os_error)
             THEN [disk |-> files, failed_deletions |-> failed_deletions + 1]
             ELSE ClearLoopAborts(left \ {k}, files \ {path}, failed_deletions,
                                  os_error)

\* The loop over documents.values(): removes each file in turn and counts
\* the removals that raise.  'left' is the set of keys not yet visited.
RECURSIVE ClearLoop(_, _, _, _)
ClearLoop(left, files, failed_deletions, os_error) ==
    IF left = {} THEN [disk |-> files, failed_deletions |-> failed_deletions]
    ELSE LET k == CHOOSE x \in left : TRUE
             path == documents[k].path
         IN  IF RemoveRaises(path, files, os_error)
             THEN ClearLoop(left \ {k}, files, failed_deletions + 1, os_error)
             ELSE ClearLoop(left \ {k}, files \ {path}, failed_deletions, os_error)

clear_documents(os_error) ==
    /\ Idle
    /\ req' = [NoReq EXCEPT !.op = "clear", !.os_error = os_error]
    /\ NoStream
    /\ LET file_count == Cardinality(DOMAIN documents)
           done == ClearLoop(DOMAIN documents, disk, 0, os_error)
       IN  /\ disk' = done.disk
           /\ documents' = DictClear(documents)
           /\ resp' = [NoResp EXCEPT !.status = 200, !.count = file_count,
                          !.failed_deletions = done.failed_deletions]
    /\ UNCHANGED <<issued, deleted>>

ClearDocuments ==
    \E os_error \in SUBSET StoredPaths :
        /\ clear_documents(os_error)
        /\ UNCHANGED threads

\* -------------------------------------------------------------- POST /chat
add_user_messages(msgs, text) ==
    Append(msgs, [role |-> "user", content |-> text])

add_assistant_messages(msgs, text) ==
    Append(msgs, [role |-> "assistant", content |-> text])

\* "=== UPLOADED DOCUMENTS ===\n\n"
ContextHeader == <<"=== UPLOADED DOCUMENTS ===", "\n", "\n">>

\* "-" * 50
Rule == [i \in 1..RuleWidth |-> "-"]

\* The three lines one registered document adds to the context.
DocumentBlock(doc) ==
    <<"Document: ">> \o doc.filename \o <<"\n">>
        \o Rule \o <<"\n">>
        \o doc.content \o <<"\n", "\n">>

\* Variant: an identifier listed twice is used once.
RECURSIVE ContextLoopOnce(_, _)
ContextLoopOnce(file_ids, ctx) ==
    IF file_ids = <<>> THEN ctx
    ELSE LET file_id == Head(file_ids)
             Other(x) == x # file_id
         IN  ContextLoopOnce(SelectSeq(Tail(file_ids), Other),
                 IF file_id \in DOMAIN documents
                 THEN ctx \o DocumentBlock(documents[file_id])
                 ELSE ctx)

\* for file_id in file_ids: if file_id in documents: context += ...
RECURSIVE ContextLoop(_, _)
ContextLoop(file_ids, ctx) ==
    IF file_ids = <<>> THEN ctx
    ELSE LET file_id == Head(file_ids)
         IN  ContextLoop(Tail(file_ids),
                 IF file_id \in DOMAIN documents
                 THEN ctx \o DocumentBlock(documents[file_id])
                 ELSE ctx)

\* context = ""; if file_ids: context = header, then the loop.
BuildContext(file_ids) ==
    IF file_ids # <<>> THEN ContextLoop(file_ids, ContextHeader) ELSE <<>>

Acknowledgment ==
    <<"I have received the uploaded documents. How can I help you analyze them?">>

\* Variant: the question is added before the context pair.
PrepareMessagesQuestionFirst(ctx, user_message) ==
    LET asked == add_user_messages(NewMessages, user_message)
    IN  IF Truthy(ctx)
        THEN add_assistant_messages(add_user_messages(asked, ctx), Acknowledgment)
        ELSE asked

\* messages = []; the context pair if context is truthy; then the question.
PrepareMessages(ctx, user_message) ==
    add_user_messages(
        IF Truthy(ctx)
        THEN add_assistant_messages(add_user_messages(NewMessages, ctx),
                                    Acknowledgment)
        ELSE NewMessages,
        user_message)

\* Variant: only a None message is rejected, and the default '' is not None.
ChatRejectedNoneOnly(user_message) == FALSE

\* if not user_message: return 400
ChatRejected(user_message) == ~Truthy(user_message)

chat(has_message, message, file_ids) ==
    LET user_message == DictGet(has_message, message, <<>>)
    IN  /\ Idle
        /\ req' = [NoReq EXCEPT !.op = "chat", !.has_message = has_message,
                                !.message = message,
                                !.file_ids = file_ids]
        /\ UNCHANGED registry
        /\ upstream_calls' = <<>>
        /\ events' = <<>>
        /\ response_text' = <<>>
        /\ upstream' = ""
        /\ IF ChatRejected(user_message)
           THEN /\ resp' = [NoResp EXCEPT !.status = 400]
                /\ context' = <<>>
                /\ messages' = <<>>
                /\ pc' = "none"
           ELSE /\ context' = BuildContext(file_ids)
                /\ messages' = PrepareMessages(BuildContext(file_ids), user_message)
                /\ resp' = [NoResp EXCEPT !.status = 200, !.streaming = TRUE]
                /\ pc' = "created"

Chat ==
    \E has_message \in BOOLEAN, message \in UserMessages,
       file_ids \in FileIdLists :
        /\ ~has_message => message = <<>>
        /\ chat(has_message, message, file_ids)
        /\ UNCHANGED threads

\* ------------------------------------------------------- stream_response
\* f"data: {json.dumps({'response': text, 'done': done})}\n\n"
DataEvent(text, done) == [type |-> "data", response |-> text, done |-> done]

\* f"data: {json.dumps({'error': ...})}\n\n": no 'response', no 'done' key.
ErrorEvent == [type |-> "error", response |-> <<>>, done |-> FALSE]

\* The events the upstream stream can deliver.
Chunks ==
    {[type |-> "content_block_delta", has_text |-> TRUE, text |-> t] : t \in DeltaTexts}
    \cup {[type |-> "content_block_delta", has_text |-> FALSE, text |-> <<>>],
          [type |-> "content_block_stop", has_text |-> FALSE, text |-> <<>>],
          [type |-> "message_start", has_text |-> FALSE, text |-> <<>>]}

\* The statements after the try block: request.json is read again and the
\* generator returns, with or without the early return.
StreamTail ==
    LET user_message == DictGet(req.has_message, req.message, <<>>)
    IN  pc' = IF ~Truthy(user_message) THEN "finished" ELSE "finished"

\* Variant: no except clause; the exception leaves the generator.
OnExceptionUncaught ==
    /\ pc' = "crashed"
    /\ upstream' = "raise"
    /\ UNCHANGED <<events, messages, response_text>>

\* except Exception: yield the error event.
OnException ==
    /\ events' = Append(events, ErrorEvent)
    /\ upstream' = "raise"
    /\ StreamTail
    /\ UNCHANGED <<messages, response_text>>

\* The generator starts: client.messages.stream(messages=messages, ...).
StreamOpen ==
    /\ pc = "created"
    /\ upstream_calls' = Append(upstream_calls, messages)
    /\ \/ /\ pc' = "streaming"
          /\ UNCHANGED <<events, upstream, messages, response_text>>
       \/ OnException
    /\ UNCHANGED <<registry, req, resp, context, threads>>

\* One pass of 'for chunk in stream'.
OnChunk(chunk) ==
    /\ UNCHANGED <<messages, upstream>>
    /\ IF chunk.type = "content_block_delta"
       THEN IF chunk.has_text
            THEN /\ response_text' = response_text \o chunk.text
                 /\ events' = Append(events, DataEvent(chunk.text, FALSE))
                 /\ pc' = "streaming"
            ELSE UNCHANGED <<response_text, events, pc>>
       ELSE IF chunk.type = "content_block_stop"
            THEN /\ events' = Append(events, DataEvent(<<>>, TRUE))
                 /\ pc' = "stopping"
                 /\ UNCHANGED response_text
            ELSE UNCHANGED <<response_text, events, pc>>

StreamChunk ==
    /\ pc = "streaming"
    /\ \E chunk \in Chunks :
          /\ chunk.has_text => Len(events) < MaxChunks
          /\ OnChunk(chunk)
    /\ UNCHANGED <<registry, req, resp, context, upstream_calls, threads>>

\* Leaving the with block normally: the reply is appended to 'messages'.
AfterLoop(how) ==
    /\ messages' = add_assistant_messages(messages, response_text)
    /\ upstream' = how
    /\ StreamTail
    /\ UNCHANGED <<events, response_text>>

\* 'break' after the done event was yielded.
StreamBreak ==
    /\ pc = "stopping"
    /\ AfterLoop("stopped")
    /\ UNCHANGED <<registry, req, resp, context, upstream_calls, threads>>

\* The upstream stream is exhausted: the for loop ends.
StreamEnd ==
    /\ pc = "streaming"
    /\ AfterLoop("end")
    /\ UNCHANGED <<registry, req, resp, context, upstream_calls, threads>>

\* The upstream API raises while the stream is read.
StreamRaise ==
    /\ pc = "streaming"
    /\ OnException
    /\ UNCHANGED <<registry, req, resp, context, upstream_calls, threads>>

\* stream_with_context: once the generator is exhausted the request context
\* is popped, and the request, its response and the generator's locals are
\* gone.
Teardown ==
    /\ pc = "finished"
    /\ req' = NoReq
    /\ resp' = NoResp
    /\ NoStream
    /\ UNCHANGED <<registry, threads>>

\* ------------------------------------------------------------ specification
Init ==
    /\ documents = EmptyMap
    /\ disk = {}
    /\ issued = {}
    /\ deleted = {}
    /\ req = NoReq
    /\ resp = NoResp
    /\ context = <<>>
    /\ messages = <<>>
    /\ upstream_calls = <<>>
    /\ events = <<>>
    /\ response_text = <<>>
    /\ pc = "none"
    /\ upstream = ""
    /\ threads = <<>>

Next ==
    \/ UploadFile
    \/ DeleteDocument
    \/ ClearDocuments
    \/ Chat
    \/ StreamOpen
    \/ StreamChunk
    \/ StreamBreak
    \/ StreamEnd
    \/ StreamRaise
    \/ Teardown

Spec == Init /\ [][Next]_vars

\* ------------------------------------------------- handlers running at once
\* app.run() serves every request on a thread of its own, and the handlers
\* share 'documents' and the upload folder without a lock.  Below, a handler
\* is cut into its registry operations and file operations; each is one
\* atomic step, and steps of different threads interleave freely.

\* A thread that has not started: its position, its response status and the
\* locals of the handler it runs.
Thread(op, file_id) ==
    [op |-> op, pc |-> "start", status |-> 0, file_id |-> file_id,
     filename |-> <<>>, payload |-> <<>>, file_path |-> <<>>, content |-> <<>>,
     file_count |-> 0, counted |-> {}, di_used |-> 0, visited |-> {},
     attempted |-> {}, failed_deletions |-> 0, cleared |-> EmptyMap]

\* The thread's handler has returned.
Done(t) == threads[t].pc = "done"

\* The sequential request scope is not in use while the threads run.
OnlyThreads ==
    UNCHANGED <<deleted, req, resp, context, messages, upstream_calls, events,
                response_text, pc, upstream>>

\* The entry upload_file registers for a saved file.
Entry(file_id, filename, payload) ==
    LET file_path == StoragePath(file_id, filename)
    IN  [filename |-> filename, path |-> file_path,
         content |-> read_file_content(file_path, payload)]

\* Filenames under which file.save succeeds.
SavedNames ==
    {f \in Filenames : Truthy(f) /\ ~SaveRaises(StoragePath(<<"0">>, f))}

\* The registries a run of uploads, one after another, leaves behind.
Registries ==
    UNION {{[k \in ids |-> Entry(k, names[k], loads[k])] :
                names \in [ids -> SavedNames], loads \in [ids -> Payloads]} :
           ids \in SUBSET UuidPool}

\* The threads start on a registry with every document's file on disk.
ThreadsInit(docs, ts) ==
    /\ documents = docs
    /\ disk = {docs[k].path : k \in DOMAIN docs}
    /\ issued = DOMAIN docs
    /\ deleted = {}
    /\ req = NoReq
    /\ resp = NoResp
    /\ context = <<>>
    /\ messages = <<>>
    /\ upstream_calls = <<>>
    /\ events = <<>>
    /\ response_text = <<>>
    /\ pc = "none"
    /\ upstream = ""
    /\ threads = ts

\* -- upload_file, step by step
\* uuid4(), the path, file.save(file_path).
UploadSave(t) ==
    /\ threads[t].op = "upload" /\ threads[t].pc = "start"
    /\ \E filename \in Filenames \ {<<>>}, payload \in Payloads, file_id \in uuid4 :
         LET file_path == StoragePath(file_id, filename)
         IN  /\ issued' = issued \cup {file_id}
             /\ IF SaveRaises(file_path)
                THEN /\ threads' = [threads EXCEPT ![t].pc = "done",
                                                   ![t].status = 500]
                     /\ UNCHANGED disk
                ELSE /\ disk' = disk \cup {file_path}
                     /\ threads' = [threads EXCEPT ![t].pc = "saved",
                                        ![t].file_id = file_id,
                                        ![t].filename = filename,
                                        ![t].payload = payload,
                                        ![t].file_path = file_path]
    /\ UNCHANGED documents
    /\ OnlyThreads

\* content = read_file_content(file_path)
UploadRead(t) ==
    /\ threads[t].op = "upload" /\ threads[t].pc = "saved"
    /\ threads' = [threads EXCEPT ![t].pc = "read",
                       ![t].content = read_file_content(threads[t].file_path,
                                                        threads[t].payload)]
    /\ UNCHANGED <<documents, disk, issued>>
    /\ OnlyThreads

\* documents[file_id] = {...}, and the response.
UploadRegister(t) ==
    /\ threads[t].op = "upload" /\ threads[t].pc = "read"
    /\ documents' = DictSet(documents, threads[t].file_id,
                            [filename |-> threads[t].filename,
                             path |-> threads[t].file_path,
                             content |-> threads[t].content])
    /\ threads' = [threads EXCEPT ![t].pc = "done", ![t].status = 200]
    /\ UNCHANGED <<disk, issued>>
    /\ OnlyThreads

\* -- clear_documents, step by step
\* file_count = len(documents)
ClearLen(t) ==
    /\ threads[t].op = "clear" /\ threads[t].pc = "start"
    /\ threads' = [threads EXCEPT ![t].pc = "counted",
                       ![t].file_count = Cardinality(DOMAIN documents),
                       ![t].counted = DOMAIN documents]
    /\ UNCHANGED <<documents, disk, issued>>
    /\ OnlyThreads

\* iter(documents.values()): the iterator records the size of the dict.
ClearIter(t) ==
    /\ threads[t].op = "clear" /\ threads[t].pc = "counted"
    /\ threads' = [threads EXCEPT ![t].pc = "iterating",
                       ![t].di_used = Cardinality(DOMAIN documents),
                       ![t].visited = {}]
    /\ UNCHANGED <<documents, disk, issued>>
    /\ OnlyThreads

\* next() on the iterator: RuntimeError when the dict has changed size, which
\* the outer except answers with 500; otherwise the next entry, or the end
\* of the loop.
ClearIterNext(t) ==
    /\ threads[t].op = "clear" /\ threads[t].pc = "iterating"
    /\ IF Cardinality(DOMAIN documents) # threads[t].di_used
       THEN threads' = [threads EXCEPT ![t].pc = "done", ![t].status = 500]
       ELSE IF DOMAIN documents \subseteq threads[t].visited
            THEN threads' = [threads EXCEPT ![t].pc = "loop_done"]
            ELSE \E k \in DOMAIN documents \ threads[t].visited :
                   threads' = [threads EXCEPT ![t].pc = "in_body",
                                   ![t].visited = @ \cup {k},
                                   ![t].file_path = documents[k].path]
    /\ UNCHANGED <<documents, disk, issued>>
    /\ OnlyThreads

\* os.remove(doc['path']) inside the inner try.
ClearRemove(t) ==
    /\ threads[t].op = "clear" /\ threads[t].pc = "in_body"
    /\ \E os_error \in {{}, {threads[t].file_path}} :
         IF RemoveRaises(threads[t].file_path, disk, os_error)
         THEN /\ threads' = [threads EXCEPT ![t].pc = "iterating",
                                 ![t].attempted = @ \cup {threads[t].file_path},
                                 ![t].failed_deletions = @ + 1]
              /\ UNCHANGED disk
         ELSE /\ threads' = [threads EXCEPT ![t].pc = "iterating",
                                 ![t].attempted = @ \cup {threads[t].file_path}]
              /\ disk' = disk \ {threads[t].file_path}
    /\ UNCHANGED <<documents, issued>>
    /\ OnlyThreads

\* documents.clear(), and the response.
ClearDict(t) ==
    /\ threads[t].op = "clear" /\ threads[t].pc = "loop_done"
    /\ documents' = DictClear(documents)
    /\ threads' = [threads EXCEPT ![t].pc = "done", ![t].status = 200,
                       ![t].cleared = [k \in DOMAIN documents \ DOMAIN documents'
                                          |-> documents[k]]]
    /\ UNCHANGED <<disk, issued>>
    /\ OnlyThreads

\* One clear request and one upload request, on any registry that leaves an
\* identifier for the upload.
InitClearRace ==
    \E docs \in Registries :
        /\ DOMAIN docs # UuidPool
        /\ ThreadsInit(docs, <<Thread("clear", <<>>), Thread("upload", <<>>)>>)

NextClearRace ==
    \E t \in DOMAIN threads :
        \/ ClearLen(t)
        \/ ClearIter(t)
        \/ ClearIterNext(t)
        \/ ClearRemove(t)
        \/ ClearDict(t)
        \/ UploadSave(t)
        \/ UploadRead(t)
        \/ UploadRegister(t)

SpecClearRace == InitClearRace /\ [][NextClearRace]_vars

\* -- delete_document, step by step
\* if file_id not in documents: 404
DeleteCheck(t) ==
    /\ threads[t].op = "delete" /\ threads[t].pc = "start"
    /\ IF threads[t].file_id \notin DOMAIN documents
       THEN threads' = [threads EXCEPT ![t].pc = "done", ![t].status = 404]
       ELSE threads' = [threads EXCEPT ![t].pc = "checked"]
    /\ UNCHANGED <<documents, disk, issued>>
    /\ OnlyThreads

\* file_path = documents[file_id]['path']: KeyError once the entry is gone.
DeleteLookup(t) ==
    /\ threads[t].op = "delete" /\ threads[t].pc = "checked"
    /\ IF threads[t].file_id \notin DOMAIN documents
       THEN threads' = [threads EXCEPT ![t].pc = "done", ![t].status = 500]
       ELSE threads' = [threads EXCEPT ![t].pc = "found",
                            ![t].file_path = documents[threads[t].file_id].path]
    /\ UNCHANGED <<documents, disk, issued>>
    /\ OnlyThreads

\* os.remove(file_path); here it raises only when the file is gone.
DeleteRemove(t) ==
    /\ threads[t].op = "delete" /\ threads[t].pc = "found"
    /\ IF RemoveRaises(threads[t].file_path, disk, {})
       THEN /\ threads' = [threads EXCEPT ![t].pc = "done", ![t].status = 500]
            /\ UNCHANGED disk
       ELSE /\ threads' = [threads EXCEPT ![t].pc = "removed"]
            /\ disk' = disk \ {threads[t].file_path}
    /\ UNCHANGED <<documents, issued>>
    /\ OnlyThreads

\* del documents[file_id]: KeyError once the entry is gone; else the
\* success response.
DeleteEntry(t) ==
    /\ threads[t].op = "delete" /\ threads[t].pc = "removed"
    /\ IF threads[t].file_id \notin DOMAIN documents
       THEN /\ threads' = [threads EXCEPT ![t].pc = "done", ![t].status = 500]
            /\ UNCHANGED documents
       ELSE /\ documents' = DictDel(documents, threads[t].file_id)
            /\ threads' = [threads EXCEPT ![t].pc = "done", ![t].status = 200]
    /\ UNCHANGED <<disk, issued>>
    /\ OnlyThreads

\* Two delete requests for the same registered id.
InitDeleteRace ==
    \E docs \in Registries :
        \E file_id \in DOMAIN docs :
            ThreadsInit(docs, <<Thread("delete", file_id),
                                Thread("delete", file_id)>>)

NextDeleteRace ==
    \E t \in DOMAIN threads :
        \/ DeleteCheck(t)
        \/ DeleteLookup(t)
        \/ DeleteRemove(t)
        \/ DeleteEntry(t)

SpecDeleteRace == InitDeleteRace /\ [][NextDeleteRace]_vars

\* =================================================================== claims
\* The concatenation of a sequence of texts.
RECURSIVE Flatten(_)
Flatten(ss) == IF ss = <<>> THEN <<>> ELSE Head(ss) \o Flatten(Tail(ss))

\* The message the chat handler reads from the current request.
UserMessage == DictGet(req.has_message, req.message, <<>>)

\* The current request is a chat request that passed the message check.
ChatAccepted == req.op = "chat" /\ Truthy(UserMessage)

\* The entries of a file_ids list that are in the registry, in list order.
RegisteredEntries(file_ids) ==
    LET InRegistry(x) == x \in DOMAIN documents
    IN  SelectSeq(file_ids, InRegistry)

\* The text fields of a sequence of events, concatenated.
EventTexts(evs) == Flatten([i \in 1..Len(evs) |-> evs[i].response])

IsFragment(ev) == ev.type = "data" /\ ev.done = FALSE

IsDone(ev) == ev = DataEvent(<<>>, TRUE)

\* C1: whatever upload, delete and clear requests have been served, each to
\* completion and with file removals free to fail, every id in the registry
\* has a file on disk at its stored path.
C1_RegistryBackedByDisk ==
    \A file_id \in DOMAIN documents : documents[file_id].path \in disk

\* C1 case: a delete whose file removal failed, with two documents
\* registered.
C1_Witness ==
    /\ req.op = "delete"
    /\ resp.status = 500
    /\ Cardinality(DOMAIN documents) >= 2

\* C2: when the upstream reply completes without an error, the events
\* emitted are fragments with done false whose texts concatenate to the
\* reply text, then exactly one done event with empty text, and nothing
\* after it.
C2_SuccessfulStreamShape ==
    (pc = "finished" /\ upstream # "raise") =>
        /\ Len(events) >= 1
        /\ IsDone(events[Len(events)])
        /\ \A i \in 1..(Len(events) - 1) : IsFragment(events[i])
        /\ EventTexts(SubSeq(events, 1, Len(events) - 1)) = response_text

\* C3: when the upstream API raises, before any fragment or after some, the
\* stream holds exactly one error event, that event is the last one, and the
\* request ends in the generator's normal exit, not in a failure.
C3_SingleTrailingErrorEvent ==
    upstream = "raise" =>
        /\ pc = "finished"
        /\ resp.status = 200
        /\ Len(events) >= 1
        /\ events[Len(events)] = ErrorEvent
        /\ \A i \in 1..(Len(events) - 1) : IsFragment(events[i])

\* C3 case: the upstream raised after two fragments had been relayed.
C3_Witness ==
    /\ upstream = "raise"
    /\ Len(events) >= 3
    /\ IsFragment(events[1])

\* C4: the context of an accepted chat request is the header followed by one
\* labelled block per entry of file_ids that is registered, in the order
\* given and as often as given; other entries add nothing and the request
\* still succeeds.
C4_ContextFollowsFileIds ==
    ChatAccepted =>
        /\ resp.status = 200
        /\ LET hits == RegisteredEntries(req.file_ids)
               blocks == Flatten([i \in 1..Len(hits) |->
                                     DocumentBlock(documents[hits[i]])])
           IN  context = IF req.file_ids = <<>> THEN <<>>
                         ELSE ContextHeader \o blocks

\* C4 case: a list that names the same registered id twice, while another
\* document is registered too.
C4_Witness ==
    /\ ChatAccepted
    /\ Cardinality(DOMAIN documents) >= 2
    /\ \E i, j \in 1..Len(req.file_ids) :
          /\ i < j
          /\ req.file_ids[i] = req.file_ids[j]
          /\ req.file_ids[i] \in DOMAIN documents

\* C5: with an empty file_ids list, or one naming no registered id, the
\* context is empty and the conversation sent upstream is the user message
\* alone, without context segment and without acknowledgment.
C5_NoMatchNoContext ==
    (ChatAccepted /\ RegisteredEntries(req.file_ids) = <<>>) =>
        /\ context = <<>>
        /\ messages[1] = [role |-> "user", content |-> UserMessage]
        /\ \A i \in 1..Len(upstream_calls) :
              upstream_calls[i] = <<[role |-> "user", content |-> UserMessage]>>

\* C6: a chat request whose message is empty or absent is answered 400, no
\* response stream is created for it and the upstream API is not called,
\* whatever its file_ids and the registry.
C6_EmptyMessageRejected ==
    (req.op = "chat" /\ ~Truthy(UserMessage)) =>
        /\ resp.status = 400
        /\ ~resp.streaming
        /\ pc = "none"
        /\ upstream_calls = <<>>

\* C6 case: a request without message, naming a registered document.
C6_Witness ==
    /\ req.op = "chat"
    /\ ~req.has_message
    /\ resp.status = 400
    /\ \E i \in 1..Len(req.file_ids) : req.file_ids[i] \in DOMAIN documents

\* C7: an upload with a non-empty filename is answered with a file_id that
\* uuid4 never returned before, not even for a document since deleted or
\* cleared, and the registry holds the uploaded filename and the decoded
\* content under that id; an entry stays as it is while its id is registered.
C7_UploadYieldsFreshId ==
    [][ /\ (req'.op = "upload" /\ req'.has_file /\ req'.filename # <<>>) =>
              /\ resp'.status = 200
              /\ resp'.file_id \notin issued
              /\ resp'.file_id \in DOMAIN documents'
              /\ documents'[resp'.file_id].filename = req'.filename
              /\ documents'[resp'.file_id].content =
                     read_file_content(documents'[resp'.file_id].path,
                                       req'.payload)
        /\ \A file_id \in DOMAIN documents \cap DOMAIN documents' :
              documents'[file_id] = documents[file_id]
      ]_vars

\* C8: an upload without file field or with an empty filename is answered
\* 400 and changes neither the registry nor the upload directory.
C8_RejectedUploadChangesNothing ==
    [][ (req'.op = "upload" /\ (~req'.has_file \/ req'.filename = <<>>)) =>
            /\ resp'.status = 400
            /\ documents' = documents
            /\ disk' = disk
      ]_vars

\* C8 case: a file field with an empty filename, rejected while a document
\* is registered.
C8_Witness ==
    /\ req.op = "upload"
    /\ req.has_file
    /\ req.filename = <<>>
    /\ resp.status = 400
    /\ documents # EmptyMap

\* C9: once a delete of a registered id has been answered with success, the
\* file it removed never exists again and every later delete of that id is
\* answered 404, whatever requests are served in between.
C9_DeletedStaysDeleted ==
    /\ [](\A d \in deleted : d.path \notin disk)
    /\ [][ (req'.op = "delete" /\ \E d \in deleted : d.file_id = req'.file_id)
               => resp'.status = 404 ]_vars

\* C9 case: a second delete of an id deleted earlier, answered 404 after an
\* upload in between.
C9_Witness ==
    /\ req.op = "delete"
    /\ resp.status = 404
    /\ \E d \in deleted : d.file_id = req.file_id
    /\ documents # EmptyMap

\* C10: a clear request served with N documents registered reports the
\* count N and leaves the registry empty, and a clear request served right
\* after a clear request reports 0.
C10_ClearReportsCount ==
    [][ req'.op = "clear" =>
            /\ resp'.status = 200
            /\ resp'.count = Cardinality(DOMAIN documents)
            /\ documents' = EmptyMap
            /\ (req.op = "clear" => resp'.count = 0)
      ]_vars

\* C10 case: a clear that found two documents registered.
C10_Witness ==
    /\ req.op = "clear"
    /\ resp.count >= 2
    /\ documents = EmptyMap

\* C11: whichever removals fail, a clear request tries every registered
\* document's file (each file whose removal does not fail is gone), answers
\* with success and failed_deletions equal to the number of failed removals,
\* and empties the registry.
C11_ClearIsBestEffort ==
    [][ req'.op = "clear" =>
            /\ resp'.status = 200
            /\ resp'.failed_deletions =
                   Cardinality({p \in StoredPaths :
                                   p \in req'.os_error \/ p \notin disk})
            /\ \A p \in StoredPaths : p \in disk' <=> (p \in disk /\ p \in req'.os_error)
            /\ documents' = EmptyMap
      ]_vars

\* C11 case: of two registered documents, the removal of one file failed.
C11_Witness ==
    /\ req.op = "clear"
    /\ resp.count = 2
    /\ resp.failed_deletions = 1
    /\ documents = EmptyMap

\* C12: a delete request touches nothing but its own id's entry and file:
\* for an unregistered id it answers 404 and leaves registry and disk as
\* they were, and for a registered id every other entry and every other
\* file stay as they were.
C12_DeleteFrame ==
    [][ req'.op = "delete" =>
            LET file_id == req'.file_id
            IN  IF file_id \notin DOMAIN documents
                THEN /\ resp'.status = 404
                     /\ documents' = documents
                     /\ disk' = disk
                ELSE /\ \A k \in DOMAIN documents \ {file_id} :
                            /\ k \in DOMAIN documents'
                            /\ documents'[k] = documents[k]
                            /\ documents[k].path \in disk <=>
                                   documents[k].path \in disk'
                     /\ DOMAIN documents' \subseteq DOMAIN documents
                     /\ disk' \subseteq disk
                     /\ disk \ disk' \subseteq {documents[file_id].path}
      ]_vars

\* C12 case: one of two registered documents was deleted.
C12_Witness ==
    /\ req.op = "delete"
    /\ resp.status = 200
    /\ documents # EmptyMap

\* C13: a delete of a registered id whose file removal fails is answered 500
\* and leaves the registry as it was, the entry included, so a delete of the
\* same id that follows is not answered 404.
C13_FailedDeleteKeepsEntry ==
    [][ /\ (/\ req'.op = "delete"
            /\ req'.file_id \in DOMAIN documents
            /\ (\/ documents[req'.file_id].path \in req'.os_error
                \/ documents[req'.file_id].path \notin disk)) =>
               /\ resp'.status = 500
               /\ documents' = documents
        /\ (/\ req.op = "delete"
            /\ resp.status = 500
            /\ req'.op = "delete"
            /\ req'.file_id = req.file_id) => resp'.status # 404
      ]_vars

\* C13 case: a delete failed on a refused removal and its entry is still
\* registered.
C13_Witness ==
    /\ req.op = "delete"
    /\ resp.status = 500
    /\ req.os_error # {}
    /\ req.file_id \in DOMAIN documents

\* The conversation chat() hands to the upstream API for the current
\* request: the list as it was when the generator made the call.
SentUpstream == upstream_calls[1]

\* C14: the conversation sent upstream is the context segment with role
\* user, the fixed acknowledgment with role assistant and the new user
\* message when file_ids names at least one id, and the new user message
\* alone otherwise; the new user message is the last segment either way.
C14_ConversationShape ==
    (ChatAccepted /\ upstream_calls # <<>>) =>
        /\ Len(upstream_calls) = 1
        /\ SentUpstream[Len(SentUpstream)] =
               [role |-> "user", content |-> UserMessage]
        /\ IF req.file_ids # <<>>
           THEN /\ Len(SentUpstream) = 3
                /\ SentUpstream[1] = [role |-> "user", content |-> context]
                /\ Truthy(context)
                /\ SentUpstream[2] = [role |-> "assistant",
                                      content |-> Acknowledgment]
           ELSE Len(SentUpstream) = 1

\* C14 case: a conversation of three segments was sent for a request naming
\* a registered document.
C14_Witness ==
    /\ ChatAccepted
    /\ upstream_calls # <<>>
    /\ Len(SentUpstream) = 3
    /\ \E i \in 1..Len(req.file_ids) : req.file_ids[i] \in DOMAIN documents

\* C15: whatever the upstream delivers, a finished stream ends with a
\* terminating event: the done event or the error event.
C15_StreamEndsWithTerminator ==
    pc = "finished" =>
        /\ Len(events) >= 1
        /\ (IsDone(events[Len(events)]) \/ events[Len(events)] = ErrorEvent)

\* C18: an entry of the registry keeps its filename, path and content for as
\* long as its id is registered; a request can remove it, not change it.
C18_EntriesAreImmutable ==
    [][ \A file_id \in DOMAIN documents \cap DOMAIN documents' :
            documents'[file_id] = documents[file_id] ]_vars

\* C18 case: an upload was registered while another document was registered.
C18_Witness ==
    /\ req.op = "upload"
    /\ resp.status = 200
    /\ Cardinality(DOMAIN documents) >= 2

\* The context segment for a file_ids list and a registry, written out from
\* these two alone.
ContextFor(file_ids, docs) ==
    LET Known(x) == x \in DOMAIN docs
        hits == SelectSeq(file_ids, Known)
    IN  IF file_ids = <<>> THEN <<>>
        ELSE ContextHeader
                 \o Flatten([i \in 1..Len(hits) |-> DocumentBlock(docs[hits[i]])])

\* The conversation for a message, a file_ids list and a registry, written
\* out from these three alone.
ConversationFor(user_message, file_ids, docs) ==
    (IF file_ids = <<>> THEN <<>>
     ELSE <<[role |-> "user", content |-> ContextFor(file_ids, docs)],
            [role |-> "assistant", content |-> Acknowledgment]>>)
        \o <<[role |-> "user", content |-> user_message]>>

\* C19: the conversation sent upstream is a function of the request's
\* message, its file_ids and the registry alone, so it is the same after
\* any history of earlier chat requests and replies that leaves the same
\* registry.
C19_ConversationIgnoresHistory ==
    \A i \in 1..Len(upstream_calls) :
        upstream_calls[i] = ConversationFor(UserMessage, req.file_ids, documents)

\* C19 case: a chat request completed and its reply was appended to the
\* request's own list, after the conversation had been sent.
C19_Witness ==
    /\ pc = "finished"
    /\ upstream # "raise"
    /\ response_text # <<>>
    /\ Len(messages) = Len(SentUpstream) + 1
    /\ messages[Len(messages)] = [role |-> "assistant", content |-> response_text]

\* The clear request among the running threads.
ClearThreads == {t \in DOMAIN threads : threads[t].op = "clear"}

\* C16: with an upload interleaved, every entry a successful clear removes
\* from the registry was counted by it and had the removal of its file
\* attempted by it.
C16_ClearRemovesOnlyWhatItHandled ==
    \A t \in ClearThreads :
        (Done(t) /\ threads[t].status = 200) =>
            /\ DOMAIN threads[t].cleared \subseteq threads[t].counted
            /\ Cardinality(DOMAIN threads[t].cleared) <= threads[t].file_count
            /\ \A k \in DOMAIN threads[t].cleared :
                   threads[t].cleared[k].path \in threads[t].attempted

\* The delete requests among the running threads.
DeleteThreads == {t \in DOMAIN threads : threads[t].op = "delete"}

\* C17: of two interleaved deletes of one registered id, at most one is
\* answered with success, and once both have returned the id is not
\* registered and its file does not exist.
C17_RacingDeletesAgree ==
    /\ \A t, u \in DeleteThreads :
           (threads[t].status = 200 /\ threads[u].status = 200) => t = u
    /\ (DeleteThreads # {} /\ \A t \in DeleteThreads : Done(t)) =>
           \A t \in DeleteThreads :
               /\ threads[t].file_id \notin DOMAIN documents
               /\ \A f \in SavedNames :
                      StoragePath(threads[t].file_id, f) \notin disk

\* C17 case: both deletes passed the registry check, one removed the file
\* and the entry, and the other failed on the way.
C17_Witness ==
    /\ Cardinality(DeleteThreads) = 2
    /\ \A t \in DeleteThreads : Done(t)
    /\ \E t, u \in DeleteThreads :
           threads[t].status = 200 /\ threads[u].status = 500

====
